---- MODULE Spec2Model ----
(***************************************************************************)
(* CardCreator: a CSV batch tool (main.go) and two HTTP servers            *)
(* (server/emailfooterserver.go, first and second program of the file)     *)
(* that draw the text fields of a business card onto a background image.   *)
(*                                                                         *)
(* A Go string is a sequence of one-character strings; "" is << >>.        *)
(* An image is the sequence of drawText calls made on the background.      *)
(***************************************************************************)
EXTENDS Integers, Sequences, FiniteSets, TLC

VARIABLES
    variant,        \* which program runs: "batch", "server1" or "server2"
    assets,         \* the asset files on disk: "ok", "missing" or "corrupt"
    card,           \* renderer: the card handed to GenerateCard
    drawn,          \* renderer: the draw calls GenerateCard made
    rpc,            \* renderer: "ready" or "rendered"
    csvFile,        \* batch: the lines of ./cards.csv
    rpos,           \* batch: number of lines the csv.Reader has consumed
    fieldsPerRecord,\* batch: csv.Reader.FieldsPerRecord
    cards,          \* batch: the cards slice of readCardsFromCSV / main
    skipped,        \* batch: line numbers logged as "Skipping invalid record"
    pc,             \* batch: position of main
    idx,            \* batch: number of cards the for loop of main has taken
    files,          \* batch: output directory, file name -> content
    writes,         \* batch: the os.Create calls made, in order
    fatal,          \* batch: the log.Fatalf that ended the run, or NoFatal
    req,            \* server: the request of each connection
    hpc,            \* server: position of each cardHandler goroutine
    cardData,       \* server: the cardData local of each cardHandler
    img,            \* server: the img local of each cardHandler
    w               \* server: the http.ResponseWriter of each request

renderVars == <<card, drawn, rpc>>
batchVars == <<csvFile, rpos, fieldsPerRecord, cards, skipped, pc, idx, files, writes, fatal>>
serverVars == <<req, hpc, cardData, img, w>>
vars == <<variant, assets, card, drawn, rpc, csvFile, rpos, fieldsPerRecord, cards, skipped,
          pc, idx, files, writes, fatal, req, hpc, cardData, img, w>>

\* ------------------------------------------------------------------ bounds
\* Longest card name, in characters.
MaxNameLen == 2
\* Most data rows of a CSV file.
MaxRows == 2
\* Most digits of a phone number.
MaxDigits == 11
\* Concurrent HTTP requests.
NReq == 2

\* ----------------------------------------------------------------- strings
Digits == {"0", "1", "2", "3", "4", "5", "6", "7", "8", "9"}

RECURSIVE Concat(_)
\* The concatenation of a sequence of strings.
Concat(ss) == IF ss = << >> THEN << >> ELSE Head(ss) \o Concat(Tail(ss))

\* strings.Map(func(r) { digit -> r, else -1 }, s): the digits of s, in order.
IsDigit(ch) == ch \in Digits
digitsOnly(s) == SelectSeq(s, IsDigit)

\* formattedPhone of the two servers: "(%s) %s-%s" of digitsOnly[0:3], [3:6], [6:10]
\* when there are exactly 10 digits, the input otherwise.
formattedPhone(phone) ==
    LET d == digitsOnly(phone)
    IN  IF Len(d) = 10
        THEN Concat(<< <<"(">>, SubSeq(d, 1, 3), <<")", " ">>, SubSeq(d, 4, 6), <<"-">>,
                       SubSeq(d, 7, 10) >>)
        ELSE phone

\* ------------------------------------------------------------------- cards
Variants == {"batch", "server1", "server2"}

\* BusinessCard. The batch tool and the second server have no Department and
\* no LandGrant fields: there they are carried as "".
BusinessCard(n, p, t, c, d, a, l1, l2, l3, l4, ph, e) ==
    [Name |-> n, Pronouns |-> p, Title |-> t, Company |-> c, Department |-> d,
     Address |-> a, LandGrant1 |-> l1, LandGrant2 |-> l2, LandGrant3 |-> l3,
     LandGrant4 |-> l4, PhoneNumber |-> ph, Email |-> e]

\* The text prefixes of the first server's Sprintf formats.
TitlePrefix == <<"T", "i", "t", "l", "e", ":", " ">>
CompanyPrefix == <<"C", "o", "m", "p", "a", "n", "y", ":", " ">>
DepartmentPrefix == <<"D", "e", "p", "a", "r", "t", "m", "e", "n", "t", ":", " ">>
AddressPrefix == <<"A", "d", "d", "r", "e", "s", "s", ":", " ">>
PhonePrefix == <<"P", "h", "o", "n", "e", ":", " ">>
EmailPrefix == <<"E", "m", "a", "i", "l", ":", " ">>

\* Font sizes, int(...) of the float constants of each GenerateCard.
nameFontSize(v) == IF v = "server1" THEN 36 ELSE 20
midFontSize(v) == IF v = "server1" THEN 28 ELSE 14
otherFontSize(v) == IF v = "server1" THEN 24 ELSE 13
pronounsFontSize(v) == IF v = "server1" THEN 18 ELSE 13
titleFontSize(v) == 15
companyFontSize(v) == 15

\* One drawText call: the call site (line), the text, the dot and the face.
drawText(line, face, text, x, y) ==
    [line |-> line, face |-> face, text |-> text, x |-> x, y |-> y]

\* `if field != "" { drawText(...) ... }`: the draw of an optional line.
DrawIf(present, ds, d) == IF present THEN Append(ds, d) ELSE ds

\* A mutant of AdvanceIf: the cursor advance is hoisted out of the if.
AdvanceIf_always(present, y, adv) == y + adv

\* `if field != "" { ...; y += adv }`: the cursor advance of an optional line.
AdvanceIf(present, y, adv) == IF present THEN y + adv ELSE y

\* The phone text the batch tool draws: cardData.PhoneNumber as it is.
batchPhoneText(phone) == phone

\* GenerateCard of main.go and of the second server: the draw calls, in order.
\* The two differ only in the phone line.
GenerateCardFooter(v, c) ==
    LET y0 == 25
        d0 == <<drawText("name", "nameFace", c.Name, 70, y0)>>
        y1 == y0 + nameFontSize(v) + 0
        hasP == c.Pronouns # << >>
        d1 == DrawIf(hasP, d0, drawText("pronouns", "pronounsFace", c.Pronouns, 70, y1))
        y2 == AdvanceIf(hasP, y1, pronounsFontSize(v) + 1)
        d2 == Append(d1, drawText("title", "titleFace", c.Title, 70, y2))
        y3 == y2 + titleFontSize(v) + 0
        y4 == y3 + 10
        d4 == Append(d2, drawText("company", "midFace", c.Company, 70, y4))
        y5 == y4 + companyFontSize(v) + 0
        d5 == Append(d4, drawText("address", "otherFace", c.Address, 70, y5))
        y6 == y5 + otherFontSize(v) + 0
        phone == IF v = "batch" THEN batchPhoneText(c.PhoneNumber)
                 ELSE formattedPhone(c.PhoneNumber)
        d6 == Append(d5, drawText("phone", "otherFace", phone, 70, y6))
        y7 == y6 + otherFontSize(v) + 0
    IN  Append(d6, drawText("email", "otherFace", c.Email, 70, y7))

\* GenerateCard of the first server: the draw calls, in order.
GenerateCardFull(v, c) ==
    LET y0 == 100
        d0 == <<drawText("name", "nameFace", c.Name, 50, y0)>>
        y1 == y0 + nameFontSize(v) + 5
        hasP == c.Pronouns # << >>
        d1 == DrawIf(hasP, d0, drawText("pronouns", "pronounsFace", c.Pronouns, 50, y1))
        y2 == AdvanceIf(hasP, y1, pronounsFontSize(v) + 5)
        y3 == y2 + 10
        d3 == Append(d1, drawText("title", "midFace", TitlePrefix \o c.Title, 50, y3))
        y4 == y3 + midFontSize(v) + 10
        d4 == Append(d3, drawText("company", "midFace", CompanyPrefix \o c.Company, 50, y4))
        y5 == y4 + midFontSize(v) + 10
        hasD == c.Department # << >>
        d5 == DrawIf(hasD, d4, drawText("department", "midFace",
                                        DepartmentPrefix \o c.Department, 50, y5))
        y6 == AdvanceIf(hasD, y5, midFontSize(v) + 10)
        d6 == Append(d5, drawText("address", "otherFace", AddressPrefix \o c.Address, 50, y6))
        y7 == y6 + otherFontSize(v) + 10
        d7 == Append(d6, drawText("phone", "otherFace",
                                  PhonePrefix \o formattedPhone(c.PhoneNumber), 50, y7))
        y8 == y7 + otherFontSize(v) + 10
        d8 == Append(d7, drawText("email", "otherFace", EmailPrefix \o c.Email, 50, y8))
        y9 == y8 + otherFontSize(v) + 10
        has1 == c.LandGrant1 # << >>
        d9 == DrawIf(has1, d8, drawText("landgrant1", "otherFace", c.LandGrant1, 50, y9))
        y10 == AdvanceIf(has1, y9, otherFontSize(v) + 5)
        has2 == c.LandGrant2 # << >>
        d10 == DrawIf(has2, d9, drawText("landgrant2", "otherFace", c.LandGrant2, 50, y10))
        y11 == AdvanceIf(has2, y10, otherFontSize(v) + 5)
        has3 == c.LandGrant3 # << >>
        d11 == DrawIf(has3, d10, drawText("landgrant3", "otherFace", c.LandGrant3, 50, y11))
        y12 == AdvanceIf(has3, y11, otherFontSize(v) + 5)
        has4 == c.LandGrant4 # << >>
    IN  DrawIf(has4, d11, drawText("landgrant4", "otherFace", c.LandGrant4, 50, y12))

\* GenerateCard with loadable assets: the image, as the draw calls on the background.
GenerateCard(v, c) == IF v = "server1" THEN GenerateCardFull(v, c) ELSE GenerateCardFooter(v, c)

\* --------------------------------------------------- renderer inputs
\* The digits phone numbers are made of: distinct in each group of the format.
DigitStr == <<"1", "2", "3", "4", "5", "6", "7", "8", "9", "0", "1", "2", "3">>

RECURSIVE Dashed(_, _)
\* ds with a "-" after its 3rd and 6th digit.
Dashed(ds, i) ==
    IF i > Len(ds) THEN << >>
    ELSE <<ds[i]>> \o (IF i \in {3, 6} /\ i < Len(ds) THEN <<"-">> ELSE << >>)
                   \o Dashed(ds, i + 1)

\* Phone numbers of 0..MaxDigits digits: bare, dashed, and with a "+" and a space.
Phones ==
    UNION { { SubSeq(DigitStr, 1, n),
              Dashed(SubSeq(DigitStr, 1, n), 1),
              <<"+">> \o SubSeq(DigitStr, 1, n) \o <<" ">> } : n \in 0..MaxDigits }

OptText == { << >>, <<"x">>, <<" ">> }

\* The cards a variant can be handed: only the first server has a Department
\* and LandGrant lines.
RenderCards(v) ==
    { BusinessCard(<<"N">>, p, <<"T">>, <<"C">>, d, <<"A">>, l1, l2, l3, l4, ph, <<"E">>) :
        p \in OptText, d \in (IF v = "server1" THEN {<< >>, <<"d">>} ELSE {<< >>}),
        l1 \in (IF v = "server1" THEN {<< >>, <<"a">>} ELSE {<< >>}),
        l2 \in (IF v = "server1" THEN {<< >>, <<"b">>} ELSE {<< >>}),
        l3 \in (IF v = "server1" THEN {<< >>, <<"c">>} ELSE {<< >>}),
        l4 \in (IF v = "server1" THEN {<< >>, <<"e">>} ELSE {<< >>}),
        ph \in Phones }

\* ------------------------------------------------ values of idle parts
NoCard == [none |-> TRUE]
NoFatal == [at |-> 0, why |-> "none"]
\* The batch tool not running.
BatchIdle ==
    /\ csvFile = << >> /\ rpos = 0 /\ fieldsPerRecord = 0 /\ cards = << >>
    /\ skipped = << >> /\ pc = "off" /\ idx = 0 /\ files = << >> /\ writes = << >>
    /\ fatal = NoFatal
\* No server running.
ServerIdle ==
    /\ req = << >> /\ hpc = << >> /\ cardData = << >> /\ img = << >> /\ w = << >>
\* No renderer check running.
RenderIdle == card = NoCard /\ drawn = << >> /\ rpc = "off"

\* ----------------------------------------- specification of the renderer
\* GenerateCard of each program applied to every card of RenderCards.
InitRender ==
    /\ variant \in Variants
    /\ assets = "ok"
    /\ card \in RenderCards(variant)
    /\ drawn = << >>
    /\ rpc = "ready"
    /\ BatchIdle /\ ServerIdle

\* One call of GenerateCard with loadable assets.
Render ==
    /\ rpc = "ready"
    /\ drawn' = GenerateCard(variant, card)
    /\ rpc' = "rendered"
    /\ UNCHANGED <<variant, assets, card, batchVars, serverVars>>

NextRender == Render

SpecRender == InitRender /\ [][NextRender]_vars

\* ------------------------------------------------------------ C3
\* The phone line's text among the draw calls ds.
PhoneTextOf(ds) == (CHOOSE d \in {ds[i] : i \in 1..Len(ds)} : d.line = "phone").text

\* What the specification says the phone text is: "(XXX) XXX-XXXX" of the ten
\* digits, or the input unchanged.
ExpectedPhoneText(p) ==
    LET d == SelectSeq(p, LAMBDA ch : ch \in Digits)
    IN  IF Len(d) = 10
        THEN <<"(", d[1], d[2], d[3], ")", " ", d[4], d[5], d[6], "-", d[7], d[8], d[9], d[10]>>
        ELSE p

\* C3 (as claimed): in every program, a rendered card's phone text is
\* "(XXX) XXX-XXXX" for a number of exactly ten digits and the input phone
\* string unchanged otherwise (after the first server's "Phone: " label).
C3_PhoneReformattedEverywhere ==
    rpc = "rendered" =>
        PhoneTextOf(drawn) =
            (IF variant = "server1" THEN PhonePrefix ELSE << >>)
                \o ExpectedPhoneText(card.PhoneNumber)

\* ------------------------------------------------------------ C4
\* The optional fields of each program's card and the call site of each.
OptFields(v) ==
    IF v = "server1"
    THEN {"Pronouns", "Department", "LandGrant1", "LandGrant2", "LandGrant3", "LandGrant4"}
    ELSE {"Pronouns"}

LineOf(f) ==
    CASE f = "Pronouns" -> "pronouns"
      [] f = "Department" -> "department"
      [] f = "LandGrant1" -> "landgrant1"
      [] f = "LandGrant2" -> "landgrant2"
      [] f = "LandGrant3" -> "landgrant3"
      [] f = "LandGrant4" -> "landgrant4"

\* The fixed advance of each optional line.
OptAdvance(v, f) ==
    IF v = "server1"
    THEN (CASE f = "Pronouns" -> 23 [] f = "Department" -> 38 [] OTHER -> 29)
    ELSE 14

\* The positions in ds of the draws made at call site ln.
LinesAt(ds, ln) == {i \in 1..Len(ds) : ds[i].line = ln}

\* dFull is dBlank with exactly one line of call site ln added, every draw
\* before it the same and every draw after it moved down by adv.
OneLineAdded(dBlank, dFull, ln, adv) ==
    /\ LinesAt(dBlank, ln) = {}
    /\ Cardinality(LinesAt(dFull, ln)) = 1
    /\ Len(dFull) = Len(dBlank) + 1
    /\ LET k == CHOOSE i \in LinesAt(dFull, ln) : TRUE
       IN  /\ \A i \in 1..(k - 1) : dFull[i] = dBlank[i]
           /\ \A i \in (k + 1)..Len(dFull) :
                  dFull[i] = [dBlank[i - 1] EXCEPT !.y = @ + adv]

\* C4: for each optional field of a rendered card, a blank ("") field has no
\* draw call and leaves every other line where the same card gets it, less
\* the field's fixed advance for the later lines, when the field is filled;
\* a filled field has exactly one draw call and moves the later lines down
\* by its fixed advance only.
C4_BlankOptionalFieldsSkipped ==
    rpc = "rendered" =>
        \A f \in OptFields(variant) :
            IF card[f] = << >>
            THEN OneLineAdded(drawn, GenerateCard(variant, [card EXCEPT ![f] = <<"z">>]),
                              LineOf(f), OptAdvance(variant, f))
            ELSE OneLineAdded(GenerateCard(variant, [card EXCEPT ![f] = << >>]), drawn,
                              LineOf(f), OptAdvance(variant, f))

\* C4 witness: the first server has rendered a card with a blank department
\* and a blank third attribution line between filled ones.
C4_Witness ==
    /\ rpc = "rendered" /\ variant = "server1"
    /\ card.Pronouns # << >> /\ card.Department = << >>
    /\ card.LandGrant1 # << >> /\ card.LandGrant3 = << >> /\ card.LandGrant4 # << >>
    /\ Len(drawn) = 9

\* ------------------------------------------------------- the CSV file
\* A line of the file as encoding/csv reads it: a record (its fields), or a
\* line it cannot parse (a bare quote in an unquoted field).
RecLine(fields) == [kind |-> "rec", fields |-> fields]
BadLine == [kind |-> "bad", fields |-> << >>]
\* ./cards.csv does not exist.
NoFile == <<[kind |-> "absent", fields |-> << >>]>>

\* The column values of a data row: each column its own text.
ColumnText ==
    << <<"n">>, <<"p">>, <<"t">>, <<"c">>, <<"a">>, <<"5", "5", "5">>, <<"e">>, <<"x">> >>

\* The data row of nf fields whose first column is name.
Row(name, nf) == RecLine([i \in 1..nf |-> IF i = 1 THEN name ELSE ColumnText[i]])

\* The header row of nf columns.
HeaderRow(nf) == RecLine([i \in 1..nf |-> <<"h">>])

NameAlphabet == {"A", " "}
\* Every name of letters and spaces of at most MaxNameLen characters, and two
\* names that hold an underscore already.
Names ==
    UNION { [1..n -> NameAlphabet] : n \in 0..MaxNameLen } \cup {<<"_">>, <<"A", "_">>}

FieldCounts == {6, 7, 8}

Headers == {HeaderRow(nf) : nf \in FieldCounts} \cup {BadLine}
DataRows ==
    {Row(nm, 7) : nm \in Names} \cup {Row(<<"A">>, 6), Row(<<"A">>, 8), BadLine}

\* The files of n data rows: a header line and n further lines.
CsvFiles(n) == { <<h>> \o rs : h \in Headers, rs \in [1..n -> DataRows] }

\* reader.Read() of encoding/csv with FieldsPerRecord left at its zero value:
\* the first record read sets FieldsPerRecord, every later record of another
\* length comes back with ErrFieldCount.
csvRead(file, pos, fpr) ==
    IF pos >= Len(file) THEN [record |-> << >>, err |-> "EOF", fpr |-> fpr]
    ELSE LET ln == file[pos + 1]
         IN  IF ln.kind = "bad" THEN [record |-> << >>, err |-> "ParseError", fpr |-> fpr]
             ELSE IF fpr > 0 /\ Len(ln.fields) # fpr
                  THEN [record |-> ln.fields, err |-> "ErrFieldCount", fpr |-> fpr]
                  ELSE [record |-> ln.fields, err |-> "nil",
                        fpr |-> IF fpr = 0 THEN Len(ln.fields) ELSE fpr]

\* A mutant of headerError: io.EOF from the header read is not an error.
headerError_eofOK(err) == IF err \in {"EOF", "nil"} THEN "nil" ELSE "csv-header"

\* readCardsFromCSV, the error of the header read: io.EOF is "CSV file is
\* empty", any other error is "failed to read CSV header".
headerError(err) ==
    IF err = "EOF" THEN "csv-empty" ELSE IF err # "nil" THEN "csv-header" ELSE "nil"

\* card := BusinessCard{Name: record[0], ..., Email: record[6]}
MakeCard(record) ==
    BusinessCard(record[1], record[2], record[3], record[4], << >>, record[5],
                 << >>, << >>, << >>, << >>, record[6], record[7])

\* A mutant of sanitizedName: only the first space is replaced.
RECURSIVE sanitizedName_first(_)
sanitizedName_first(name) ==
    IF name = << >> THEN << >>
    ELSE IF Head(name) = " " THEN <<"_">> \o Tail(name)
         ELSE <<Head(name)>> \o sanitizedName_first(Tail(name))

\* strings.ReplaceAll(card.Name, " ", "_")
RECURSIVE sanitizedName(_)
sanitizedName(name) ==
    IF name = << >> THEN << >>
    ELSE <<IF Head(name) = " " THEN "_" ELSE Head(name)>> \o sanitizedName(Tail(name))

FileSuffix ==
    <<"_", "e", "m", "a", "i", "l", "_", "s", "i", "g", "n", "a", "t", "u", "r", "e",
      ".", "p", "n", "g">>

\* fmt.Sprintf("%s_email_signature.png", sanitizedName)
outputFileName(name) == sanitizedName(name) \o FileSuffix

\* A mutant of WriteFile: a file that exists is left as it is.
WriteFile_keepFirst(fs, fn, content) ==
    [n \in (DOMAIN fs) \cup {fn} |-> IF n \in DOMAIN fs THEN fs[n] ELSE content]

\* The file system after os.Create(fn) and the writes of content to it.
WriteFile(fs, fn, content) ==
    [n \in (DOMAIN fs) \cup {fn} |-> IF n = fn THEN content ELSE fs[n]]

\* A mutant of AfterFatalf: the failure is logged and the program goes on.
AfterFatalf_continue == "loop"

\* log.Fatalf: the program exits.
AfterFatalf == "fatal"

\* ------------------------------------------- specification of the batch tool
\* ./cards.csv is absent, empty, or a header line and at most MaxRows lines.
InitBatch ==
    /\ variant = "batch"
    /\ assets \in {"ok", "missing", "corrupt"}
    /\ \E n \in 0..MaxRows : csvFile \in CsvFiles(n) \cup {NoFile, << >>}
    /\ rpos = 0 /\ fieldsPerRecord = 0 /\ cards = << >> /\ skipped = << >>
    /\ pc = "start" /\ idx = 0 /\ files = << >> /\ writes = << >> /\ fatal = NoFatal
    /\ RenderIdle /\ ServerIdle

\* log.Fatalf for the card at position at (0: before the loop).
Fatalf(at, why) == fatal' = [at |-> at, why |-> why] /\ pc' = AfterFatalf

\* main, the four os.Stat checks.
MainStat ==
    /\ pc = "start"
    /\ IF assets = "missing" \/ csvFile = NoFile
       THEN Fatalf(0, "stat")
       ELSE pc' = "header" /\ UNCHANGED fatal
    /\ UNCHANGED <<variant, assets, csvFile, rpos, fieldsPerRecord, cards, skipped, idx,
                   files, writes, renderVars, serverVars>>

\* readCardsFromCSV: read and discard the header row.
ReadHeader ==
    /\ pc = "header"
    /\ LET r == csvRead(csvFile, rpos, fieldsPerRecord)
       IN  /\ IF headerError(r.err) # "nil" THEN Fatalf(0, headerError(r.err))
              ELSE pc' = "records" /\ UNCHANGED fatal
           /\ rpos' = IF r.err = "EOF" THEN rpos ELSE rpos + 1
           /\ fieldsPerRecord' = r.fpr
    /\ UNCHANGED <<variant, assets, csvFile, cards, skipped, idx, files, writes,
                   renderVars, serverVars>>

\* readCardsFromCSV: one turn of the for loop; at EOF the return to main and
\* main's len(cards) == 0 check.
ReadRecord ==
    /\ pc = "records"
    /\ LET r == csvRead(csvFile, rpos, fieldsPerRecord)
       IN  /\ rpos' = IF r.err = "EOF" THEN rpos ELSE rpos + 1
           /\ fieldsPerRecord' = r.fpr
           /\ IF r.err = "EOF"
              THEN /\ pc' = IF Len(cards) = 0 THEN "done" ELSE "loop"
                   /\ UNCHANGED <<cards, skipped, fatal>>
              ELSE IF r.err # "nil"
              THEN /\ cards' = << >>
                   /\ Fatalf(0, "csv-record")
                   /\ UNCHANGED skipped
              ELSE IF Len(r.record) < 7
              THEN /\ skipped' = Append(skipped, rpos + 1)
                   /\ UNCHANGED <<cards, pc, fatal>>
              ELSE /\ cards' = Append(cards, MakeCard(r.record))
                   /\ UNCHANGED <<skipped, pc, fatal>>
    /\ UNCHANGED <<variant, assets, csvFile, idx, files, writes, renderVars, serverVars>>

\* main, one turn of the for loop in which GenerateCard returns an error.
RenderFail ==
    /\ pc = "loop" /\ idx < Len(cards)
    /\ assets = "corrupt"
    /\ idx' = idx + 1
    /\ Fatalf(idx + 1, "render")
    /\ UNCHANGED <<variant, assets, csvFile, rpos, fieldsPerRecord, cards, skipped,
                   files, writes, renderVars, serverVars>>

\* main, one turn of the for loop in which os.Create fails.
CreateFail ==
    /\ pc = "loop" /\ idx < Len(cards)
    /\ assets = "ok"
    /\ idx' = idx + 1
    /\ Fatalf(idx + 1, "create")
    /\ UNCHANGED <<variant, assets, csvFile, rpos, fieldsPerRecord, cards, skipped,
                   files, writes, renderVars, serverVars>>

\* main, one turn of the for loop in which png.Encode fails: the file was
\* created (truncated) and holds no complete image.
EncodeFail ==
    /\ pc = "loop" /\ idx < Len(cards)
    /\ assets = "ok"
    /\ LET fn == outputFileName(cards[idx + 1].Name)
       IN  /\ files' = WriteFile(files, fn, [img |-> << >>, complete |-> FALSE])
           /\ writes' = Append(writes, [pos |-> idx + 1, name |-> fn])
    /\ idx' = idx + 1
    /\ Fatalf(idx + 1, "encode")
    /\ UNCHANGED <<variant, assets, csvFile, rpos, fieldsPerRecord, cards, skipped,
                   renderVars, serverVars>>

\* main, one turn of the for loop that succeeds: render, create, encode.
WriteCard ==
    /\ pc = "loop" /\ idx < Len(cards)
    /\ assets = "ok"
    /\ LET c == cards[idx + 1]
           fn == outputFileName(c.Name)
       IN  /\ files' = WriteFile(files, fn, [img |-> GenerateCard(variant, c), complete |-> TRUE])
           /\ writes' = Append(writes, [pos |-> idx + 1, name |-> fn])
    /\ idx' = idx + 1
    /\ pc' = IF idx + 1 = Len(cards) THEN "done" ELSE "loop"
    /\ UNCHANGED <<variant, assets, csvFile, rpos, fieldsPerRecord, cards, skipped, fatal,
                   renderVars, serverVars>>

NextBatch ==
    \/ MainStat
    \/ ReadHeader
    \/ ReadRecord
    \/ RenderFail
    \/ CreateFail
    \/ EncodeFail
    \/ WriteCard

SpecBatch == InitBatch /\ [][NextBatch]_vars

\* ------------------------------------------------------ batch: the claims
\* readCardsFromCSV has returned (with cards or with an error).
ReadReturned == pc \in {"loop", "done"} \/ (pc = "fatal" /\ fatal.why # "stat")
\* readCardsFromCSV has returned an error.
ReadFailed == fatal.why \in {"csv-empty", "csv-header", "csv-record"}
\* The run has ended.
RunEnded == pc \in {"done", "fatal"}

IsRecord(ln, nf) == ln.kind = "rec" /\ Len(ln.fields) = nf
\* The lines after the header.
DataLines(file) == SubSeq(file, 2, Len(file))

\* The card the specification maps a record to: columns 0 to 6, in order.
CardOfColumns(fs) ==
    [Name |-> fs[1], Pronouns |-> fs[2], Title |-> fs[3], Company |-> fs[4],
     Department |-> << >>, Address |-> fs[5], LandGrant1 |-> << >>, LandGrant2 |-> << >>,
     LandGrant3 |-> << >>, LandGrant4 |-> << >>, PhoneNumber |-> fs[6], Email |-> fs[7]]

RECURSIVE ExpectedCards(_)
\* One card for each record of at least 7 fields, in the order of the lines.
ExpectedCards(lines) ==
    IF lines = << >> THEN << >>
    ELSE (IF lines[1].kind = "rec" /\ Len(lines[1].fields) >= 7
          THEN <<CardOfColumns(lines[1].fields)>> ELSE << >>)
         \o ExpectedCards(Tail(lines))

\* C1 (as claimed): a run over a header row and N rows of 7 fields, with the
\* assets loadable and no output failure, ends with exactly N output files.
C1_NFilesForNRows ==
    ( /\ RunEnded /\ assets = "ok" /\ fatal.why \notin {"create", "encode"}
      /\ csvFile # NoFile /\ Len(csvFile) >= 1
      /\ \A i \in 1..Len(csvFile) : IsRecord(csvFile[i], 7) )
    => /\ pc = "done"
       /\ Cardinality(DOMAIN files) = Len(csvFile) - 1

\* C2 (as claimed): under a header of 7 columns, rows of fewer than 7 fields
\* are skipped and are not fatal: readCardsFromCSV returns no error, the short
\* rows are logged and give no card, the other rows give their cards.
C2_ShortRowsSkipped ==
    ( /\ ReadReturned /\ csvFile # NoFile /\ Len(csvFile) >= 1
      /\ IsRecord(csvFile[1], 7)
      /\ \A i \in 2..Len(csvFile) : csvFile[i].kind = "rec" /\ Len(csvFile[i].fields) <= 7 )
    => /\ ~ReadFailed
       /\ cards = ExpectedCards(DataLines(csvFile))
       /\ \A i \in 2..Len(csvFile) :
              Len(csvFile[i].fields) < 7 <=> \E k \in 1..Len(skipped) : skipped[k] = i

\* C9 (as claimed): whatever the header holds, the cards returned are one card
\* per later record of at least 7 fields, columns 0 to 6 in order, in file order.
C9_EveryLongEnoughRecordIsACard ==
    ( /\ ReadReturned /\ csvFile # NoFile /\ Len(csvFile) >= 1
      /\ \A i \in 1..Len(csvFile) : csvFile[i].kind = "rec" )
    => cards = ExpectedCards(DataLines(csvFile))

\* C7: once a step of the run has failed the program has exited: no card after
\* the failing one is rendered or written, nothing changes afterwards, and a
\* CSV read error leaves no card rendered and no output file.
C7_StateAfterFailure ==
    fatal # NoFatal =>
        /\ pc = "fatal"
        /\ idx = fatal.at
        /\ \A k \in 1..Len(writes) : writes[k].pos <= fatal.at
        /\ (fatal.why \in {"render", "create"} =>
                \A k \in 1..Len(writes) : writes[k].pos < fatal.at)
        /\ (ReadFailed => cards = << >> /\ writes = << >> /\ files = << >>)

C7_FailuresAreFatal == []C7_StateAfterFailure /\ [][fatal # NoFatal => UNCHANGED vars]_vars

\* C7 witness: the first of two cards failed at os.Create and the run is over
\* with no file written.
C7_Witness ==
    /\ pc = "fatal" /\ fatal = [at |-> 1, why |-> "create"]
    /\ Len(cards) = 2 /\ files = << >>

\* C8: every output file created is named, character for character, the
\* card's Name with each space turned into an underscore, followed by
\* "_email_signature.png".
C8_OutputFileName ==
    \A k \in 1..Len(writes) :
        LET nm == cards[writes[k].pos].Name
            fn == writes[k].name
        IN  /\ Len(fn) = Len(nm) + Len(FileSuffix)
            /\ \A i \in 1..Len(nm) : fn[i] = (IF nm[i] = " " THEN "_" ELSE nm[i])
            /\ SubSeq(fn, Len(nm) + 1, Len(fn)) =
                   <<"_", "e", "m", "a", "i", "l", "_", "s", "i", "g", "n", "a", "t",
                     "u", "r", "e", ".", "p", "n", "g">>
            /\ fn \in DOMAIN files

\* C8 witness: the file of a card named with two spaces has been written.
C8_Witness ==
    \E k \in 1..Len(writes) :
        /\ cards[writes[k].pos].Name = <<" ", " ">>
        /\ writes[k].name \in DOMAIN files
        /\ files[writes[k].name].complete

\* --------------------------------------------------- http.ResponseWriter
NoDisposition == [disposition |-> "", filename |-> ""]
EmptyHeader == [ContentType |-> "", ContentDisposition |-> NoDisposition, XContentTypeOptions |-> ""]

\* The ResponseWriter handed to a handler: the header map, whether the status
\* line and headers have gone out, the status and headers that went out, the
\* body chunks written, and how many chunks the connection takes before its
\* writes fail.
NewResponseWriter(accept) ==
    [header |-> EmptyHeader, wroteHeader |-> FALSE, status |-> 0, sent |-> EmptyHeader,
     body |-> << >>, accept |-> accept]

\* w.Header().Set(k, v)
HeaderSet(rw, k, v) == [rw EXCEPT !.header[k] = v]

\* w.WriteHeader(code): the first call sends the status and the header map as
\* it is then; a later call is superfluous and changes nothing.
WriteHeader(rw, code) ==
    IF rw.wroteHeader THEN rw
    ELSE [rw EXCEPT !.wroteHeader = TRUE, !.status = code, !.sent = rw.header]

\* w.Write(chunk): an implicit WriteHeader(200), then the chunk if the
\* connection still takes it. The result and whether the write succeeded.
WriteOK(rw) == Len(rw.body) < rw.accept
Write(rw, chunk) ==
    LET r1 == WriteHeader(rw, 200)
    IN  IF WriteOK(rw) THEN [r1 EXCEPT !.body = Append(@, chunk)] ELSE r1

\* http.Error(w, msg, code)
httpError(rw, msg, code) ==
    LET r1 == HeaderSet(rw, "ContentType", "text/plain; charset=utf-8")
        r2 == HeaderSet(r1, "XContentTypeOptions", "nosniff")
    IN  Write(WriteHeader(r2, code), [chunk |-> msg, data |-> << >>])

\* The chunks png.Encode writes for an image, one Write each.
pngEncode(im) ==
    << [chunk |-> "signature", data |-> << >>], [chunk |-> "IHDR", data |-> << >>],
       [chunk |-> "IDAT", data |-> im], [chunk |-> "IEND", data |-> << >>] >>

RECURSIVE pngEncodeTo(_, _)
\* png.Encode(w, img): the chunks are written in order up to the first write
\* that fails. The writer afterwards and whether an error is returned.
pngEncodeTo(rw, chunks) ==
    IF chunks = << >> THEN [w |-> rw, err |-> FALSE]
    ELSE IF WriteOK(rw) THEN pngEncodeTo(Write(rw, Head(chunks)), Tail(chunks))
         ELSE [w |-> Write(rw, Head(chunks)), err |-> TRUE]

\* The response a client is sent: status, headers and body as written out.
Response(rw) == [status |-> rw.status, header |-> rw.sent, body |-> rw.body]

\* ----------------------------------------------------------- cardHandler
\* The Content-Disposition each server sets.
Attachment(v) ==
    [disposition |-> "attachment",
     filename |-> IF v = "server1" THEN "emailsignature.png" ELSE "EmailSignature.png"]

\* cardData := BusinessCard{Name: r.FormValue("name"), ...}: the second
\* server reads no department and no land_grant value.
CardOfForm(v, f) ==
    IF v = "server1"
    THEN BusinessCard(f.name, f.pronouns, f.title, f.company, f.department, f.address,
                      f.land_grant_1, f.land_grant_2, f.land_grant_3, f.land_grant_4,
                      f.phone_number, f.email)
    ELSE BusinessCard(f.name, f.pronouns, f.title, f.company, << >>, f.address,
                      << >>, << >>, << >>, << >>, f.phone_number, f.email)

\* A mutant of HandleParse: the method is not looked at.
HandleParse_anyMethod(v, rq, rw) ==
    IF ~rq.parseOK
    THEN [next |-> "done", cardData |-> NoCard,
          w |-> httpError(rw, "Failed to parse form data", 400)]
    ELSE [next |-> "parsed", cardData |-> CardOfForm(v, rq.form), w |-> rw]

\* cardHandler up to the cardData literal: the method check and ParseForm.
\* Where the handler is next, its cardData and its writer.
HandleParse(v, rq, rw) ==
    IF rq.method # "POST"
    THEN [next |-> "done", cardData |-> NoCard, w |-> httpError(rw, "Method not allowed", 405)]
    ELSE IF ~rq.parseOK
    THEN [next |-> "done", cardData |-> NoCard,
          w |-> httpError(rw, "Failed to parse form data", 400)]
    ELSE [next |-> "parsed", cardData |-> CardOfForm(v, rq.form), w |-> rw]

\* cardHandler, the GenerateCard call and its error branch.
HandleGenerate(v, a, cd, rw) ==
    IF a # "ok"
    THEN [next |-> "done", img |-> << >>,
          w |-> httpError(rw, "Failed to generate business card image", 500)]
    ELSE [next |-> "rendered", img |-> GenerateCard(v, cd), w |-> rw]

\* A mutant of HandleRespond: the headers are set after the image is encoded.
HandleRespond_headersLast(v, im, rw) ==
    LET e == pngEncodeTo(rw, pngEncode(im))
        r1 == HeaderSet(e.w, "ContentType", "image/png")
        r2 == HeaderSet(r1, "ContentDisposition", Attachment(v))
    IN  IF e.err THEN httpError(r2, "Failed to encode PNG image", 500) ELSE r2

\* cardHandler from the Content-Type header to the end: both headers are set,
\* then the image is encoded to w; an encode error calls http.Error.
HandleRespond(v, im, rw) ==
    LET r1 == HeaderSet(rw, "ContentType", "image/png")
        r2 == HeaderSet(r1, "ContentDisposition", Attachment(v))
        e == pngEncodeTo(r2, pngEncode(im))
    IN  IF e.err THEN httpError(e.w, "Failed to encode PNG image", 500) ELSE e.w

\* A mutant of StoreCardData: cardData is one package-level variable that
\* every handler assigns and reads.
StoreCardData_shared(cds, r, c) == [i \in DOMAIN cds |-> c]

\* cardData is a local of each cardHandler call.
StoreCardData(cds, r, c) == [cds EXCEPT ![r] = c]

\* ------------------------------------------------ the servers' requests
Conns == 1..NReq

\* The form values of a request, by form key.
Form(nm, pr, dp, lg, ph) ==
    [name |-> nm, pronouns |-> pr, title |-> <<"T">>, company |-> <<"C">>,
     department |-> dp, address |-> <<"A">>, land_grant_1 |-> lg, land_grant_2 |-> << >>,
     land_grant_3 |-> lg, land_grant_4 |-> << >>, phone_number |-> ph, email |-> <<"E">>]
NoForm == [none |-> TRUE]

Forms ==
    { Form(<<"A">>, << >>, <<"d">>, << >>, SubSeq(DigitStr, 1, 10)),
      Form(<<"B">>, <<"p">>, << >>, <<"l">>, <<"5", "5", "5">>) }

\* How many chunks a connection takes before it breaks: one, two, or the
\* whole image.
AcceptLimits == {1, 2, Len(pngEncode(<< >>))}

\* The methods r.Method can hold besides "POST".
OtherMethods == {"GET", "PUT"}

\* The requests to /generate-card: a request of another method that carries
\* the same form values, a POST whose body does not parse, and a POST of a
\* form over a connection that may break.
Requests ==
    { [method |-> m, parseOK |-> TRUE, form |-> f, accept |-> 1] :
        m \in OtherMethods, f \in Forms }
    \cup { [method |-> "POST", parseOK |-> FALSE, form |-> NoForm, accept |-> 1] }
    \cup { [method |-> "POST", parseOK |-> TRUE, form |-> f, accept |-> a] :
             f \in Forms, a \in AcceptLimits }
NoReq == [method |-> "", parseOK |-> FALSE, form |-> NoForm, accept |-> 0]

\* -------------------------------------------- specification of the servers
\* net/http runs cardHandler in one goroutine per connection; the asset files
\* do not change while the server runs.
InitServer ==
    /\ variant \in {"server1", "server2"}
    /\ assets \in {"ok", "missing", "corrupt"}
    /\ req = [r \in Conns |-> NoReq]
    /\ hpc = [r \in Conns |-> "idle"]
    /\ cardData = [r \in Conns |-> NoCard]
    /\ img = [r \in Conns |-> << >>]
    /\ w = [r \in Conns |-> NewResponseWriter(0)]
    /\ RenderIdle /\ BatchIdle

\* A request arrives on connection r and its handler goroutine starts.
Arrive(r) ==
    /\ hpc[r] = "idle"
    /\ \E rq \in Requests :
          /\ req' = [req EXCEPT ![r] = rq]
          /\ w' = [w EXCEPT ![r] = NewResponseWriter(rq.accept)]
    /\ hpc' = [hpc EXCEPT ![r] = "start"]
    /\ UNCHANGED <<variant, assets, cardData, img, renderVars, batchVars>>

\* cardHandler of connection r: method check, ParseForm, cardData.
Parse(r) ==
    /\ hpc[r] = "start"
    /\ LET h == HandleParse(variant, req[r], w[r])
       IN  /\ hpc' = [hpc EXCEPT ![r] = h.next]
           /\ w' = [w EXCEPT ![r] = h.w]
           /\ cardData' = IF h.next = "parsed" THEN StoreCardData(cardData, r, h.cardData)
                          ELSE cardData
    /\ UNCHANGED <<variant, assets, req, img, renderVars, batchVars>>

\* cardHandler of connection r: GenerateCard.
Generate(r) ==
    /\ hpc[r] = "parsed"
    /\ LET h == HandleGenerate(variant, assets, cardData[r], w[r])
       IN  /\ hpc' = [hpc EXCEPT ![r] = h.next]
           /\ w' = [w EXCEPT ![r] = h.w]
           /\ img' = [img EXCEPT ![r] = h.img]
    /\ UNCHANGED <<variant, assets, req, cardData, renderVars, batchVars>>

\* cardHandler of connection r: the headers and png.Encode.
Respond(r) ==
    /\ hpc[r] = "rendered"
    /\ w' = [w EXCEPT ![r] = HandleRespond(variant, img[r], w[r])]
    /\ hpc' = [hpc EXCEPT ![r] = "done"]
    /\ UNCHANGED <<variant, assets, req, cardData, img, renderVars, batchVars>>

NextServer ==
    \E r \in Conns :
        \/ Arrive(r)
        \/ Parse(r)
        \/ Generate(r)
        \/ Respond(r)

SpecServer == InitServer /\ [][NextServer]_vars

\* ----------------------------------------------------- servers: the claims
\* Connection r's request was a POST whose form parsed and whose card rendered.
ParsedAndRendered(r) ==
    /\ hpc[r] = "done" /\ req[r].method = "POST" /\ req[r].parseOK /\ assets = "ok"

\* The PNG encoding of the card of connection r's form.
ExpectedPng(r) == pngEncode(GenerateCard(variant, CardOfForm(variant, req[r].form)))

\* The chunks of a body that are image bytes.
ImageChunks(body) ==
    {i \in 1..Len(body) : body[i].chunk \in {"signature", "IHDR", "IDAT", "IEND"}}

ImageHeadersSent(r) ==
    /\ Response(w[r]).header.ContentType = "image/png"
    /\ Response(w[r]).header.ContentDisposition.disposition = "attachment"

C6_FailuresAre400Or500 ==
    \A r \in Conns :
        (hpc[r] = "done" /\ req[r].method = "POST") =>
            LET parseFailed == ~req[r].parseOK
                renderFailed == req[r].parseOK /\ assets # "ok"
                encodeFailed == req[r].parseOK /\ assets = "ok"
                                /\ req[r].accept < Len(ExpectedPng(r))
                resp == Response(w[r])
            IN  /\ parseFailed => resp.status = 400
                /\ renderFailed => resp.status = 500
                /\ encodeFailed => resp.status \in {400, 500}
                /\ (parseFailed \/ renderFailed \/ encodeFailed) =>
                       /\ resp.header.ContentType # "image/png"
                       /\ ImageChunks(resp.body) = {}

\* The response to a request handled with no other request in the server.
ServeAlone(v, a, rq) ==
    LET p == HandleParse(v, rq, NewResponseWriter(rq.accept))
        g == HandleGenerate(v, a, p.cardData, p.w)
    IN  IF p.next = "done" THEN Response(p.w)
        ELSE IF g.next = "done" THEN Response(g.w)
        ELSE Response(HandleRespond(v, g.img, g.w))

\* C10: under every interleaving of the handlers, the response to a request is
\* the response that request gets when it is the only one: a function of its
\* method, its form and its connection and of the static assets, whatever the
\* other requests hold and however many were answered before.
C10_RequestsIndependent ==
    \A r \in Conns :
        /\ hpc[r] = "done" => Response(w[r]) = ServeAlone(variant, assets, req[r])
        /\ hpc[r] \in {"parsed", "rendered"} =>
               cardData[r] = CardOfForm(variant, req[r].form)

\* C10 witness: two POSTs of different forms have both been answered with an
\* image.
C10_Witness ==
    /\ hpc[1] = "done" /\ hpc[2] = "done"
    /\ req[1].form # req[2].form
    /\ req[1].form # NoForm /\ req[2].form # NoForm
    /\ Len(w[1].body) = 4 /\ Len(w[2].body) = 4
    /\ w[1].body # w[2].body

\* ------------------------------------------------------------------ C11
\* The connections whose request has a method other than POST.
NotPost(r) == hpc[r] # "idle" /\ req[r].method # "POST"

\* Nothing of an image is in the response of r: neither image header, in the
\* writer's map or as sent, nor a chunk of a PNG in the body.
NoImageWritten(r) ==
    /\ w[r].header.ContentType # "image/png"
    /\ w[r].header.ContentDisposition = NoDisposition
    /\ w[r].sent.ContentType # "image/png"
    /\ w[r].sent.ContentDisposition = NoDisposition
    /\ ImageChunks(w[r].body) = {}

\* C11: a request whose method is not POST is answered 405 "Method not
\* allowed" by the first step of its handler, which then returns: the handler
\* never gets to the parsed form, to GenerateCard (the asset reads, the
\* rendering) or to the image response, so it holds no cardData and no image
\* and its response carries no image header and no image byte.
C11_NotPostIs405 ==
    \A r \in Conns :
        NotPost(r) =>
            /\ hpc[r] \in {"start", "done"}
            /\ cardData[r] = NoCard
            /\ img[r] = << >>
            /\ NoImageWritten(r)
            /\ hpc[r] = "start" => w[r] = NewResponseWriter(req[r].accept)
            /\ hpc[r] = "done" =>
                   /\ Response(w[r]).status = 405
                   /\ Response(w[r]).body = <<[chunk |-> "Method not allowed", data |-> << >>]>>
                   /\ Response(w[r]).header.ContentType = "text/plain; charset=utf-8"

\* A GET of a well-formed form is answered 405 on a server whose assets are
\* in place, while the same form POSTed on another connection got its image.
C11_Witness ==
    \E r, q \in Conns :
        /\ assets = "ok"
        /\ NotPost(r) /\ hpc[r] = "done" /\ Response(w[r]).status = 405
        /\ req[r].parseOK /\ req[r].form \in Forms
        /\ req[q].method = "POST" /\ req[q].form = req[r].form
        /\ hpc[q] = "done" /\ Response(w[q]).status = 200
        /\ ImageChunks(w[q].body) # {}


\* ------------------------------------------------------------------ C12
\* readCardsFromCSV returned no error and no card: the file has a header and
\* every row after it was read and skipped.
NoCardsRead == ReadReturned /\ ~ReadFailed /\ cards = << >>

\* The run ended normally at main's "No cards found" return, before the loop
\* over the cards, with nothing written.
EndedWithNoCards ==
    /\ pc = "done" /\ fatal = NoFatal
    /\ idx = 0 /\ writes = << >> /\ files = << >>

C12_WitnessEmpty == RunEnded /\ csvFile = << >> /\ fatal.why = "csv-empty"


\* ------------------------------------------------------------------ C13
\* Two names are equal after every space is replaced with an underscore.
SameAfterReplace(n1, n2) ==
    /\ Len(n1) = Len(n2)
    /\ \A i \in 1..Len(n1) : n1[i] = n2[i] \/ {n1[i], n2[i]} \subseteq {" ", "_"}

\* The position of the last write to the file fn.
LastWriteTo(fn) ==
    CHOOSE k \in 1..Len(writes) :
        /\ writes[k].name = fn
        /\ \A j \in (k + 1)..Len(writes) : writes[j].name # fn

\* C13: the cards are written one at a time in the order of the CSV rows
\* (the k-th write is of the k-th card, and the loop is at the card after the
\* last one written); two cards get the same file name exactly when their
\* names are equal after replacing spaces with underscores, whatever their
\* other fields; and every output file holds what the last write to its name
\* put there, so at the end of a run without failure a file that two rows
\* share holds the complete card of the later row.
C13_LaterRowOverwrites ==
    /\ \A k \in 1..Len(writes) : writes[k].pos = k /\ k <= Len(cards)
    /\ pc \in {"loop", "done"} => Len(writes) = idx
    /\ \A j, k \in 1..Len(writes) :
           (writes[j].name = writes[k].name) <=> SameAfterReplace(cards[j].Name, cards[k].Name)
    /\ DOMAIN files = {writes[k].name : k \in 1..Len(writes)}
    /\ \A fn \in DOMAIN files :
           \/ files[fn] = [img |-> GenerateCard("batch", cards[LastWriteTo(fn)]), complete |-> TRUE]
           \/ /\ pc = "fatal" /\ fatal.why = "encode" /\ LastWriteTo(fn) = Len(writes)
              /\ files[fn] = [img |-> << >>, complete |-> FALSE]
    /\ (pc = "done" /\ cards # << >>) => Len(writes) = Len(cards)

\* Two rows whose names differ but are equal after the replacement have been
\* written, and the one file holds the card of the second row, not the first.
C13_Witness ==
    /\ pc = "done" /\ Len(writes) = 2
    /\ cards[1].Name # cards[2].Name
    /\ writes[1].name = writes[2].name
    /\ DOMAIN files = {writes[2].name}
    /\ files[writes[2].name].img = GenerateCard("batch", cards[2])
    /\ files[writes[2].name].img # GenerateCard("batch", cards[1])

====
